---- MODULE Spec2Model ----
(***************************************************************************)
(* Model of the Telegram reminder bot of src/main.py: the subscriber      *)
(* store kept in subscribers.json (load_subscribers, save_subscribers,    *)
(* add_subscriber, remove_subscriber), the sender (send_message) and the  *)
(* two HTTP handlers that drive them (telegram_webhook, tick).            *)
(*                                                                         *)
(* Python values are modelled by what the code can observe of them:       *)
(*   - a str is a sequence of one-character strings;                      *)
(*   - a JSON entry is a record [t, n, s]: its type tag, its numeric      *)
(*     value (int and bool) and its characters (str);                     *)
(*   - a function that can raise returns a record with an exc field, so   *)
(*     that a try/except is something the model does, not assumes.        *)
(***************************************************************************)
EXTENDS Integers, Sequences, FiniteSets, TLC

VARIABLES
    file,      \* content of subscribers.json
    file0,     \* content of subscribers.json when the process started
    before,    \* content of subscribers.json when the last request began
    hist,      \* the requests handled so far, oldest first
    fault,     \* TRUE once a save_subscribers call has failed
    last,      \* the payload of the last request
    loaded,    \* the list the last load_subscribers call returned
    attempts,  \* the requests.post calls made by the last request
    wrote,     \* number of save_subscribers calls the last request made
    resp,      \* what the last request returned to its caller
    logged,    \* TRUE when a save_subscribers call of the last request failed
    arrived,   \* content of subscribers.json when the last request arrived
    inflight   \* the webhook coroutines suspended at `await request.json()`

vars == <<file, file0, before, hist, fault, last, loaded, attempts, wrote, resp,
          logged, arrived, inflight>>

----------------------------------------------------------------------------
(* Bounds *)

MaxStrLen == 3        \* longest string stored as an array entry
MaxArr == 2           \* longest stored array, pure-function specification
MaxLegacyLen == 2     \* longest stored array, legacy-storage specification
MaxEvents == 4        \* requests per behaviour, from absent storage
MaxLegacyEvents == 2  \* requests per behaviour, from legacy storage
MaxShapeEvents == 1   \* requests per behaviour, payloads of any shape
MaxAsyncEvents == 3   \* requests per behaviour, interleaved coroutines

----------------------------------------------------------------------------
(* Python str and int() *)

Chars == {"-", "5", "a"}
Digits == {"5"}

DigitVal(c) == IF c = "5" THEN 5 ELSE 0

Strs(n) == UNION {[1..k -> Chars] : k \in 0..n}

\* str.isdigit(): non-empty and every character a digit
isdigit(s) == Len(s) > 0 /\ \A i \in 1..Len(s) : s[i] \in Digits

\* str.lstrip("-"): drop every leading '-'
RECURSIVE lstrip(_)
lstrip(s) == IF Len(s) > 0 /\ s[1] = "-" THEN lstrip(Tail(s)) ELSE s

RECURSIVE DecVal(_)
DecVal(s) ==
    IF Len(s) = 0 THEN 0
    ELSE DecVal(SubSeq(s, 1, Len(s) - 1)) * 10 + DigitVal(s[Len(s)])

\* int(s) for a str: one optional sign, then digits; anything else raises
\* ValueError
int_of_str(s) ==
    LET digits == IF Len(s) > 0 /\ s[1] = "-" THEN Tail(s) ELSE s
    IN  IF isdigit(digits)
        THEN [exc |-> FALSE,
              val |-> IF Len(s) > 0 /\ s[1] = "-" THEN 0 - DecVal(digits)
                      ELSE DecVal(digits)]
        ELSE [exc |-> TRUE, val |-> 0]

----------------------------------------------------------------------------
(* JSON values *)

IntE(n)  == [t |-> "int", n |-> n, s |-> <<>>]
StrE(s)  == [t |-> "str", n |-> 0, s |-> s]
BoolE(b) == [t |-> "bool", n |-> IF b THEN 1 ELSE 0, s |-> <<>>]
FloatE(n) == [t |-> "float", n |-> n, s |-> <<>>]   \* n: the integer part
NullE    == [t |-> "null", n |-> 0, s |-> <<>>]
NestedE  == [t |-> "nested", n |-> 0, s |-> <<>>]

Chats == {555, 777}

\* isinstance(x, int): bool is a subclass of int
isinstance_int(x) == x.t \in {"int", "bool"}

isinstance_str(x) == x.t = "str"

\* int(x) for a JSON value: an int is itself, True is 1, a float is
\* truncated, a str is parsed, None and containers raise TypeError
int_of(x) ==
    IF x.t \in {"int", "bool", "float"} THEN [exc |-> FALSE, val |-> x.n]
    ELSE IF x.t = "str" THEN int_of_str(x.s)
    ELSE [exc |-> TRUE, val |-> 0]

\* The storage file.  kind says what is on disk; items is what
\* `for x in data` yields after json.load: the elements of an array, the
\* keys of an object, the characters of a string.
Absent     == [kind |-> "absent", items |-> <<>>]
Unreadable == [kind |-> "unreadable", items |-> <<>>]
BadSyntax  == [kind |-> "badsyntax", items |-> <<>>]
Scalar(k)  == [kind |-> k, items |-> <<>>]
Array(xs)  == [kind |-> "array", items |-> xs]
Object(ks) == [kind |-> "object", items |-> ks]
String(s)  == [kind |-> "string", items |-> [i \in 1..Len(s) |-> StrE(<<s[i]>>)]]

Iterable == {"array", "object", "string"}

----------------------------------------------------------------------------
(* Sequence helpers *)

Range(q) == {q[i] : i \in 1..Len(q)}

Count(q, x) == Cardinality({i \in 1..Len(q) : q[i] = x})

\* list.remove(x): drop the first occurrence of x
RemoveFirst(q, x) ==
    LET i == CHOOSE j \in 1..Len(q) : q[j] = x /\ \A k \in 1..(j - 1) : q[k] # x
    IN  SubSeq(q, 1, i - 1) \o SubSeq(q, i + 1, Len(q))

SeqsUpTo(S, n) == UNION {[1..k -> S] : k \in 0..n}

----------------------------------------------------------------------------
(* The subscriber store *)

\* the filter of the list comprehension of load_subscribers
Keeps(x) ==
    isinstance_int(x) \/ (isinstance_str(x) /\ isdigit(lstrip(x.s)))

\* the try block of load_subscribers: open, json.load, and the list
\* comprehension, which converts every kept entry with int()
LoadBody(f) ==
    IF f.kind \notin Iterable
    THEN [exc |-> TRUE, val |-> <<>>]
    ELSE LET kept == SelectSeq(f.items, Keeps)
             conv == [i \in 1..Len(kept) |-> int_of(kept[i])]
         IN  IF \E i \in 1..Len(kept) : conv[i].exc
             THEN [exc |-> TRUE, val |-> <<>>]
             ELSE [exc |-> FALSE, val |-> [i \in 1..Len(kept) |-> conv[i].val]]

\* load_subscribers without its try/except
load_subscribers_unguarded(f) ==
    IF f.kind = "absent" THEN [exc |-> FALSE, val |-> <<>>] ELSE LoadBody(f)

load_subscribers(f) ==
    IF f.kind = "absent"
    THEN [exc |-> FALSE, val |-> <<>>]
    ELSE LET r == LoadBody(f)
         IN  IF r.exc THEN [exc |-> FALSE, val |-> <<>>] ELSE r

SaveOutcomes == {"ok", "open_fail", "write_fail"}

\* SaveBody removing the old file before it opens the new one
SaveBody_unlink_first(f, chat_ids, outcome) ==
    IF outcome = "ok"
    THEN [exc |-> FALSE, file |-> Array([i \in 1..Len(chat_ids) |-> IntE(chat_ids[i])])]
    ELSE IF outcome = "open_fail"
    THEN [exc |-> TRUE, file |-> Absent]
    ELSE [exc |-> TRUE, file |-> BadSyntax]

\* the try block of save_subscribers: open("w") truncates the file, then
\* json.dump writes the list
SaveBody(f, chat_ids, outcome) ==
    IF outcome = "ok"
    THEN [exc |-> FALSE, file |-> Array([i \in 1..Len(chat_ids) |-> IntE(chat_ids[i])])]
    ELSE IF outcome = "open_fail"
    THEN [exc |-> TRUE, file |-> f]
    ELSE [exc |-> TRUE, file |-> BadSyntax]

\* save_subscribers without its try/except
save_subscribers_unguarded(f, chat_ids, outcome) ==
    LET r == SaveBody(f, chat_ids, outcome)
    IN  [exc |-> r.exc, file |-> r.file, logged |-> r.exc]

\* logged: the except branch ran (logger.error)
save_subscribers(f, chat_ids, outcome) ==
    LET r == SaveBody(f, chat_ids, outcome)
    IN  [exc |-> FALSE, file |-> r.file, logged |-> r.exc]

\* the result of a store operation that did not get to save
NoSave(f, l) ==
    [exc |-> l.exc, file |-> f, loaded |-> l.val, wrote |-> 0, logged |-> FALSE]

Saved(s, l) ==
    [exc |-> s.exc, file |-> s.file, loaded |-> l.val, wrote |-> 1, logged |-> s.logged]

\* add_subscriber inserting at the front of the list
add_subscriber_prepend(f, chat_id, outcome) ==
    LET l == load_subscribers(f)
    IN  IF l.exc \/ chat_id \in Range(l.val)
        THEN NoSave(f, l)
        ELSE Saved(save_subscribers(f, <<chat_id>> \o l.val, outcome), l)

\* add_subscriber without its membership test
add_subscriber_unchecked(f, chat_id, outcome) ==
    LET l == load_subscribers(f)
    IN  IF l.exc THEN NoSave(f, l)
        ELSE Saved(save_subscribers(f, Append(l.val, chat_id), outcome), l)

add_subscriber(f, chat_id, outcome) ==
    LET l == load_subscribers(f)
    IN  IF l.exc \/ chat_id \in Range(l.val)
        THEN NoSave(f, l)
        ELSE Saved(save_subscribers(f, Append(l.val, chat_id), outcome), l)

\* remove_subscriber forgetting to save
remove_subscriber_nosave(f, chat_id, outcome) ==
    NoSave(f, load_subscribers(f))

\* remove_subscriber saving whether or not the id was present
remove_subscriber_always_saves(f, chat_id, outcome) ==
    LET l == load_subscribers(f)
    IN  IF l.exc THEN NoSave(f, l)
        ELSE IF chat_id \notin Range(l.val)
        THEN Saved(save_subscribers(f, l.val, outcome), l)
        ELSE Saved(save_subscribers(f, RemoveFirst(l.val, chat_id), outcome), l)

remove_subscriber(f, chat_id, outcome) ==
    LET l == load_subscribers(f)
    IN  IF l.exc \/ chat_id \notin Range(l.val)
        THEN NoSave(f, l)
        ELSE Saved(save_subscribers(f, RemoveFirst(l.val, chat_id), outcome), l)

----------------------------------------------------------------------------
(* The sender *)

MESSAGE_TEXT     == "reminder"
SUBSCRIBED_TEXT  == "subscribed"
UNSUBSCRIBED_TEXT == "unsubscribed"

SendOutcomes == {"ok", "http_error", "timeout", "network"}

\* the try block of send_message: requests.post raises on a timeout or a
\* network error, raise_for_status on a non-success status
SendBody(chat_id, text, outcome) ==
    [exc |-> outcome # "ok",
     attempt |-> [to |-> chat_id, text |-> text, outcome |-> outcome]]

\* send_message without its try/except
send_message_unguarded(chat_id, text, outcome) ==
    SendBody(chat_id, text, outcome)

send_message(chat_id, text, outcome) ==
    [exc |-> FALSE, attempt |-> SendBody(chat_id, text, outcome).attempt]

----------------------------------------------------------------------------
(* Webhook payloads *)

\* A field of the update is a record [k, ...]: k = "absent" when the key is
\* missing, "null" for JSON null, "falsy" for another falsy value ({}, "",
\* 0, [], false), "other" for a truthy value of an unexpected type, "dict"
\* or "str" or "val" for the expected one.
START == <<"/", "s", "t", "a", "r", "t">>
STOP  == <<"/", "s", "t", "o", "p">>

\* `prefix in s` instead of s.startswith(prefix)
startswith_anywhere(s, prefix) ==
    \E i \in 1..Len(s) :
        i + Len(prefix) - 1 <= Len(s) /\ SubSeq(s, i, i + Len(prefix) - 1) = prefix

startswith(s, prefix) ==
    Len(s) >= Len(prefix) /\ SubSeq(s, 1, Len(prefix)) = prefix

NoId  == [k |-> "absent", v |-> NullE]
Id(v) == [k |-> "val", v |-> v]

NoText     == [k |-> "absent", s |-> <<>>]
TextOf(k)  == [k |-> k, s |-> <<>>]
Text(s)    == [k |-> "str", s |-> s]

ChatOf(k)  == [k |-> k, id |-> NoId]
Chat(id)   == [k |-> "dict", id |-> id]

MsgOf(k)      == [k |-> k, chat |-> ChatOf("absent"), text |-> NoText]
Msg(chat, tx) == [k |-> "dict", chat |-> chat, text |-> tx]

NonObjectUpdate == [obj |-> FALSE, message |-> MsgOf("absent"), edited_message |-> MsgOf("absent")]
Update(m, e)    == [obj |-> TRUE, message |-> m, edited_message |-> e]

\* messages as Telegram sends them: an integer chat id and a text
PlainTexts == {START, STOP, <<"h", "i">>}
PlainMsgs  == {Msg(Chat(Id(IntE(c))), Text(t)) : c \in Chats, t \in PlainTexts}

\* the same from chat 555 with the chat id in another JSON type
IdVariants ==
    {Id(StrE(<<"5", "5", "5">>)), Id(StrE(<<"a">>)), Id(FloatE(555)), Id(NullE), NoId}
IdMsgs == {Msg(Chat(i), Text(t)) : i \in IdVariants, t \in {START, <<"h", "i">>}}

\* the same from chat 555 with another text
TextVariants ==
    {NoText, TextOf("null"), TextOf("falsy"), TextOf("other"), Text(<<>>),
     Text(START \o <<"x">>), Text(STOP \o <<"@", "b">>), Text(<<"s">> \o START)}
TextMsgs == {Msg(Chat(Id(IntE(555))), t) : t \in TextVariants}

\* a message whose chat is missing, null or not an object
ChatMsgs == {Msg(ChatOf(k), Text(START)) : k \in {"absent", "null", "other"}}

DictMsgs == PlainMsgs \cup IdMsgs \cup TextMsgs \cup ChatMsgs

Payloads ==
    {NonObjectUpdate}
    \cup {Update(MsgOf(k), MsgOf("absent")) : k \in {"absent", "null", "falsy", "other"}}
    \cup {Update(m, MsgOf("absent")) : m \in DictMsgs}
    \cup {Update(MsgOf(k), m) : k \in {"absent", "falsy"}, m \in PlainMsgs}
    \cup {Update(m, Msg(Chat(Id(IntE(777))), Text(STOP))) : m \in PlainMsgs}

\* the updates Telegram itself sends for a text message
PlainPayloads == {Update(m, MsgOf("absent")) : m \in PlainMsgs}

Truthy(m) == m.k \in {"other", "dict"}

----------------------------------------------------------------------------
(* The handlers.  A handler's result: exc, whether an exception escaped   *)
(* it; file, loaded, wrote: its effect on the store; attempts: its sends; *)
(* resp: what it returned; op, chat: the entry it leaves in hist.         *)

NoResp     == [status |-> 0, kind |-> "none", sent |-> 0]
OkTrue     == [status |-> 200, kind |-> "ok", sent |-> 0]
Sent(n)    == [status |-> 200, kind |-> "sent", sent |-> n]
ServerError == [status |-> 500, kind |-> "error", sent |-> 0]

Ack(f) ==
    [exc |-> FALSE, file |-> f, loaded |-> <<>>, wrote |-> 0, logged |-> FALSE,
     attempts |-> <<>>, resp |-> OkTrue, op |-> "noop", chat |-> 0]

Raised(f) ==
    [exc |-> TRUE, file |-> f, loaded |-> <<>>, wrote |-> 0, logged |-> FALSE,
     attempts |-> <<>>, resp |-> ServerError, op |-> "error", chat |-> 0]

\* the two command branches of telegram_webhook: the store operation, then
\* the confirmation
Command(op, st, chat_id, text, sendOutcome) ==
    IF st.exc
    THEN [exc |-> TRUE, file |-> st.file, loaded |-> st.loaded, wrote |-> st.wrote,
          logged |-> st.logged, attempts |-> <<>>, resp |-> ServerError,
          op |-> op, chat |-> chat_id]
    ELSE LET m == send_message(chat_id, text, sendOutcome)
         IN  [exc |-> m.exc, file |-> st.file, loaded |-> st.loaded,
              wrote |-> st.wrote, logged |-> st.logged,
              attempts |-> <<m.attempt>>,
              resp |-> IF m.exc THEN ServerError ELSE OkTrue,
              op |-> op, chat |-> chat_id]

telegram_webhook(f, update, saveOutcome, sendOutcome) ==
    IF ~update.obj THEN Raised(f)                     \* update.get
    ELSE
    LET message == IF Truthy(update.message) THEN update.message
                   ELSE update.edited_message
    IN
    IF ~Truthy(message) THEN Ack(f)
    ELSE IF message.k # "dict" THEN Raised(f)         \* message.get
    ELSE IF message.chat.k = "absent" THEN Ack(f)     \* {}.get("id") is None
    ELSE IF message.chat.k # "dict" THEN Raised(f)    \* chat.get
    ELSE IF message.chat.id.k = "absent" \/ message.chat.id.v.t = "null" THEN Ack(f)
    ELSE IF message.text.k \in {"absent", "null", "falsy"} THEN Ack(f)
    ELSE IF message.text.k # "str" THEN Raised(f)     \* text.startswith
    ELSE IF message.text.s = <<>> THEN Ack(f)
    ELSE
    LET chat_id == int_of(message.chat.id.v)
    IN
    IF startswith(message.text.s, START)
    THEN IF chat_id.exc THEN Raised(f)
         ELSE Command("start", add_subscriber(f, chat_id.val, saveOutcome),
                      chat_id.val, SUBSCRIBED_TEXT, sendOutcome)
    ELSE IF startswith(message.text.s, STOP)
    THEN IF chat_id.exc THEN Raised(f)
         ELSE Command("stop", remove_subscriber(f, chat_id.val, saveOutcome),
                      chat_id.val, UNSUBSCRIBED_TEXT, sendOutcome)
    ELSE Ack(f)

\* the for loop of tick: outcomes[i] is what the i-th requests.post does
RECURSIVE Broadcast(_, _, _)
Broadcast(subscribers, outcomes, i) ==
    IF i > Len(subscribers) THEN [exc |-> FALSE, attempts |-> <<>>]
    ELSE LET m == send_message(subscribers[i], MESSAGE_TEXT, outcomes[i])
         IN  IF m.exc THEN [exc |-> TRUE, attempts |-> <<m.attempt>>]
             ELSE LET rest == Broadcast(subscribers, outcomes, i + 1)
                  IN  [exc |-> rest.exc, attempts |-> <<m.attempt>> \o rest.attempts]

\* tick reporting the deliveries that succeeded instead of the attempts
tick_counts_delivered(f, outcomes) ==
    LET l == load_subscribers(f)
        b == Broadcast(l.val, outcomes, 1)
    IN  [exc |-> FALSE, file |-> f, loaded |-> l.val, wrote |-> 0, logged |-> FALSE,
         attempts |-> b.attempts,
         resp |-> Sent(Cardinality({i \in 1..Len(b.attempts) : b.attempts[i].outcome = "ok"})),
         op |-> "tick", chat |-> 0]

tick(f, outcomes) ==
    LET l == load_subscribers(f)
    IN  IF l.exc
        THEN [exc |-> TRUE, file |-> f, loaded |-> <<>>, wrote |-> 0, logged |-> FALSE,
              attempts |-> <<>>, resp |-> ServerError, op |-> "tick", chat |-> 0]
        ELSE IF l.val = <<>>
        THEN [exc |-> FALSE, file |-> f, loaded |-> l.val, wrote |-> 0, logged |-> FALSE,
              attempts |-> <<>>, resp |-> Sent(0), op |-> "tick", chat |-> 0]
        ELSE LET b == Broadcast(l.val, outcomes, 1)
             IN  [exc |-> b.exc, file |-> f, loaded |-> l.val, wrote |-> 0,
                  logged |-> FALSE, attempts |-> b.attempts,
                  resp |-> IF b.exc THEN ServerError ELSE Sent(Len(l.val)),
                  op |-> "tick", chat |-> 0]

----------------------------------------------------------------------------
(* State machine *)

TickRequest == [kind |-> "tick", update |-> NonObjectUpdate]
WebhookRequest(u) == [kind |-> "webhook", update |-> u]
NoRequest == [kind |-> "none", update |-> NonObjectUpdate]

\* the handler of a request ran, from its last await to its return, with
\* result r
Effects(req, r) ==
    /\ file' = (IF r.wrote > 0 THEN r.file ELSE file)
    /\ before' = file
    /\ hist' = Append(hist, [op |-> r.op, chat |-> r.chat])
    /\ fault' = (fault \/ r.logged)
    /\ last' = req
    /\ loaded' = r.loaded
    /\ attempts' = r.attempts
    /\ wrote' = r.wrote
    /\ resp' = r.resp
    /\ logged' = r.logged
    /\ UNCHANGED file0

\* a request was handled with result r, from arrival to return in one step
Handled(req, r) ==
    /\ Effects(req, r)
    /\ arrived' = file
    /\ UNCHANGED inflight

InitWith(f) ==
    /\ file = f
    /\ file0 = f
    /\ before = f
    /\ hist = <<>>
    /\ fault = FALSE
    /\ last = NoRequest
    /\ loaded = <<>>
    /\ attempts = <<>>
    /\ wrote = 0
    /\ resp = NoResp
    /\ logged = FALSE
    /\ arrived = f
    /\ inflight = <<>>

\* the outcomes to draw for a request: those of the calls it makes
SaveChoices(f, u) ==
    IF telegram_webhook(f, u, "ok", "ok").wrote > 0 THEN SaveOutcomes ELSE {"ok"}

SendChoices(f, u) ==
    IF telegram_webhook(f, u, "ok", "ok").attempts # <<>> THEN SendOutcomes ELSE {"ok"}

\* POST /webhook with a payload from the set P
WebhookFrom(P) ==
    \E u \in P :
      \E saveOutcome \in SaveChoices(file, u), sendOutcome \in SendChoices(file, u) :
        Handled(WebhookRequest(u), telegram_webhook(file, u, saveOutcome, sendOutcome))

\* GET /tick
TickRequested ==
    \E outcomes \in [1..Len(load_subscribers(file).val) -> SendOutcomes] :
        Handled(TickRequest, tick(file, outcomes))

\* what can be on disk when the process starts
LegacyEntries == {IntE(555), StrE(<<"5", "5", "5">>), StrE(<<"-", "-", "5">>), NullE}

LegacyFiles ==
    {Absent, Unreadable, BadSyntax, Scalar("null"), Scalar("number"),
     Object(<<StrE(<<"5", "5", "5">>)>>), String(<<"5", "a">>)}
    \cup {Array(xs) : xs \in SeqsUpTo(LegacyEntries, MaxLegacyLen)}

(* Telegram's own updates and ticks, served from whatever storage the     *)
(* process finds                                                          *)

Init == \E f \in LegacyFiles : InitWith(f)

Webhook == Len(hist) < MaxLegacyEvents /\ WebhookFrom(PlainPayloads)

Tick == Len(hist) < MaxLegacyEvents /\ TickRequested

Next == Webhook \/ Tick

Spec == Init /\ [][Next]_vars

(* Telegram's own updates and ticks, served from absent storage *)

InitFresh == InitWith(Absent)

FreshWebhook == Len(hist) < MaxEvents /\ WebhookFrom(PlainPayloads)

FreshTick == Len(hist) < MaxEvents /\ TickRequested

NextFresh == FreshWebhook \/ FreshTick

SpecFresh == InitFresh /\ [][NextFresh]_vars

(* Webhook payloads of any shape *)

AnyWebhook == Len(hist) < MaxShapeEvents /\ WebhookFrom(Payloads)

NextShape == AnyWebhook

SpecShape == Init /\ [][NextShape]_vars

(* load_subscribers as a function of the file content *)

Entries ==
    {IntE(555), IntE(777), BoolE(TRUE), FloatE(555), NullE, NestedE}
    \cup {StrE(s) : s \in Strs(MaxStrLen)}

Files ==
    {Absent, Unreadable, BadSyntax, Scalar("null"), Scalar("number"), Scalar("bool")}
    \cup {Array(xs) : xs \in SeqsUpTo(Entries, MaxArr)}
    \cup {Object(ks) : ks \in {q \in SeqsUpTo({StrE(s) : s \in Strs(MaxStrLen)}, MaxArr) :
                                  \A i, j \in 1..Len(q) : q[i] = q[j] => i = j}}
    \cup {String(s) : s \in Strs(MaxStrLen)}

InitLoad == \E f \in Files : InitWith(f)

\* a call of load_subscribers
Load ==
    /\ hist = <<>>
    /\ Handled([kind |-> "load", update |-> NonObjectUpdate],
               [file |-> file, loaded |-> load_subscribers(file).val,
                exc |-> load_subscribers(file).exc, wrote |-> 0, logged |-> FALSE,
                attempts |-> <<>>, resp |-> NoResp, op |-> "load", chat |-> 0])

NextLoad == Load

SpecLoad == InitLoad /\ [][NextLoad]_vars

(* Interleaved requests.  Both handlers are coroutines on the one event  *)
(* loop of the server process.  telegram_webhook awaits once, for the    *)
(* request body, and runs without another await from there to its        *)
(* return; tick never awaits.                                            *)

Coroutine(u, f) == [update |-> u, arrived |-> f]

\* the load done before the await instead: the file as it was on arrival
StoreRead_at_arrival(co, f) == co.arrived

\* the file a resumed coroutine works on: load_subscribers runs after the
\* await, so it reads the file as it is when the coroutine resumes
StoreRead(co, f) == f

\* POST /webhook arrives: the coroutine starts and suspends at
\* `await request.json()`
Arrive ==
    /\ Len(hist) + Len(inflight) < MaxAsyncEvents
    /\ \E u \in PlainPayloads : inflight' = Append(inflight, Coroutine(u, file))
    /\ UNCHANGED <<file, file0, before, hist, fault, last, loaded, attempts, wrote,
                   resp, logged, arrived>>

\* the event loop resumes a suspended coroutine, which runs to its return
Resume ==
    \E i \in 1..Len(inflight) :
      LET co == inflight[i]
          f  == StoreRead(co, file)
      IN  \E saveOutcome \in SaveChoices(f, co.update),
             sendOutcome \in SendChoices(f, co.update) :
            /\ Effects(WebhookRequest(co.update),
                       telegram_webhook(f, co.update, saveOutcome, sendOutcome))
            /\ arrived' = co.arrived
            /\ inflight' = SubSeq(inflight, 1, i - 1) \o SubSeq(inflight, i + 1, Len(inflight))

AsyncTick == Len(hist) + Len(inflight) < MaxAsyncEvents /\ TickRequested

NextAsync == Arrive \/ Resume \/ AsyncTick

SpecAsync == InitFresh /\ [][NextAsync]_vars

----------------------------------------------------------------------------
(* Properties *)

Ev(op, chat) == [op |-> op, chat |-> chat]

LastEv == hist[Len(hist)]

Loaded(f) == load_subscribers(f).val

IsReminderRun(L) ==
    /\ Len(attempts) = Len(L)
    /\ \A i \in 1..Len(L) : attempts[i].to = L[i] /\ attempts[i].text = MESSAGE_TEXT

\* C1: a tick makes exactly one send attempt per entry of the list that
\* load_subscribers returned when it began, in stored order and with the
\* reminder text, whatever each send's outcome.
C1_TickAttemptsEveryEntry ==
    last.kind = "tick" => IsReminderRun(Loaded(before))

C1_Witness ==
    /\ last.kind = "tick"
    /\ Len(attempts) >= 2
    /\ \A i \in 1..Len(attempts) : attempts[i].outcome # "ok"

\* C2: from absent storage and with every save succeeding, /start from 555,
\* /start from 777, tick, /stop from 555 give the lists [555], [555, 777],
\* two reminder attempts (to 555, then to 777), and [777].
C2_EndToEnd ==
    ~fault =>
      /\ hist = <<Ev("start", 555)>> => Loaded(file) = <<555>>
      /\ hist = <<Ev("start", 555), Ev("start", 777)>> => Loaded(file) = <<555, 777>>
      /\ hist = <<Ev("start", 555), Ev("start", 777), Ev("tick", 0)>>
           => IsReminderRun(<<555, 777>>)
      /\ hist = <<Ev("start", 555), Ev("start", 777), Ev("tick", 0), Ev("stop", 555)>>
           => Loaded(file) = <<777>>

C2_Witness ==
    /\ ~fault
    /\ hist = <<Ev("start", 555), Ev("start", 777), Ev("tick", 0), Ev("stop", 555)>>
    /\ Loaded(file) = <<777>>

\* C3: the webhook handler returns {"ok": true} for every payload and every
\* outcome of the store and send operations; no exception escapes it.
C3_WebhookAlwaysAcknowledges ==
    last.kind = "webhook" => resp = OkTrue

\* C4: tick returns a normal response, and no exception escapes it, for every
\* state of the storage and every outcome of each send.
C4_TickNeverFails ==
    last.kind = "tick" => resp.status = 200 /\ resp.kind = "sent"

C4_Witness ==
    /\ last.kind = "tick"
    /\ before.kind = "array"
    /\ LoadBody(before).exc

\* C5: after add_subscriber(id) has been called k >= 1 times in a row (every
\* save succeeding), the loaded list contains id exactly once.
C5_AddIdempotent ==
    \A c \in Chats :
      (hist # <<>> /\ ~fault /\ \A i \in 1..Len(hist) : hist[i] = Ev("start", c))
        => Count(Loaded(file), c) = 1

\* C6 as stated: add_subscriber(id) followed immediately by
\* remove_subscriber(id) leaves the loaded list as it was, for every id.
C6_AddRemoveRestores ==
    \A c \in Chats :
      (hist = <<Ev("start", c), Ev("stop", c)>> /\ ~fault)
        => Loaded(file) = Loaded(file0)

\* C6 as amended: add_subscriber(id) followed immediately by
\* remove_subscriber(id), both saves succeeding, leaves the loaded list as it
\* was when id was not in it.
C6_AddRemoveRestoresWhenAbsent ==
    \A c \in Chats :
      (hist = <<Ev("start", c), Ev("stop", c)>> /\ ~fault /\ c \notin Range(Loaded(file0)))
        => Loaded(file) = Loaded(file0)

C6_Witness ==
    \E c \in Chats :
      /\ hist = <<Ev("start", c), Ev("stop", c)>>
      /\ ~fault
      /\ c \notin Range(Loaded(file0))
      /\ Loaded(file0) # <<>>
      /\ Loaded(file) = Loaded(file0)

\* C7: remove_subscriber(id) for an id that is not in the loaded list writes
\* nothing: the storage and the loaded list are as before.
C7_RemoveAbsentIsNoOp ==
    (hist # <<>> /\ LastEv.op = "stop" /\ LastEv.chat \notin Range(Loaded(before)))
      => /\ wrote = 0
         /\ file = before
         /\ Loaded(file) = Loaded(before)

C7_Witness ==
    /\ hist # <<>>
    /\ LastEv.op = "stop"
    /\ LastEv.chat \notin Range(Loaded(before))
    /\ Loaded(before) # <<>>
    /\ before.kind = "array"
    /\ \E i \in 1..Len(before.items) : before.items[i].t = "str"

\* C8: load_subscribers returns the empty list when the file is absent and
\* when it is malformed: invalid syntax, or a top-level value that is not an
\* array.
C8_MalformedLoadsEmpty ==
    (last.kind = "load" /\ before.kind # "array") => loaded = <<>>

\* an integer or a string of an optional single '-' followed by digits only
C9_Valid(x) ==
    \/ x.t = "int"
    \/ /\ x.t = "str"
       /\ LET d == IF Len(x.s) > 0 /\ x.s[1] = "-" THEN Tail(x.s) ELSE x.s
          IN  Len(d) > 0 /\ \A i \in 1..Len(d) : d[i] \in Digits

\* C9: of a stored array, load_subscribers keeps exactly the integers and
\* the strings of an optional single '-' followed by digits, converted, and
\* drops every other entry without losing a valid one.
C9_FiltersPerEntry ==
    (last.kind = "load" /\ before.kind = "array")
      => LET valid == SelectSeq(before.items, C9_Valid)
         IN  loaded = [i \in 1..Len(valid) |-> int_of(valid[i]).val]

\* C10: the list load_subscribers returns of a stored array holds each
\* identifier at most once.
C10_LoadDeduplicates ==
    (last.kind = "load" /\ before.kind = "array")
      => \A i, j \in 1..Len(loaded) : loaded[i] = loaded[j] => i = j

\* C11: a failed save is logged and does not raise: the webhook handler
\* that called add_subscriber or remove_subscriber still sends the
\* confirmation and returns {"ok": true}.
C11_FailedSaveDoesNotStopHandler ==
    (last.kind = "webhook" /\ logged)
      => /\ resp = OkTrue
         /\ wrote = 1
         /\ Len(attempts) = 1
         /\ attempts[1].to = LastEv.chat
         /\ attempts[1].text = (IF LastEv.op = "start" THEN SUBSCRIBED_TEXT
                                ELSE UNSUBSCRIBED_TEXT)

C11_Witness ==
    /\ last.kind = "webhook"
    /\ logged
    /\ file = BadSyntax
    /\ Loaded(before) # <<>>
    /\ resp = OkTrue

NoContent == [status |-> 204, kind |-> "empty", sent |-> 0]

RECURSIVE C13_Replay(_, _)
C13_Replay(L, h) ==
    IF h = <<>> THEN L
    ELSE LET e == Head(h)
             M == IF e.op = "start" /\ e.chat \notin Range(L) THEN Append(L, e.chat)
                  ELSE IF e.op = "stop" /\ e.chat \in Range(L) THEN RemoveFirst(L, e.chat)
                  ELSE L
         IN  C13_Replay(M, Tail(h))

\* C13: no update is lost between interleaved requests: once every request
\* has returned (every save succeeding), the persisted list is the one the
\* same requests give when run one after the other in the order they
\* returned.
C13_NoLostUpdate ==
    (inflight = <<>> /\ ~fault) => Loaded(file) = C13_Replay(<<>>, hist)

\* two /start requests from distinct chats were in flight together: the
\* second arrived before the first saved, and both are in the list
C13_Witness ==
    /\ inflight = <<>>
    /\ ~fault
    /\ Len(hist) = 2
    /\ hist[1].op = "start" /\ hist[2].op = "start"
    /\ hist[1].chat # hist[2].chat
    /\ arrived = Absent
    /\ before # Absent
    /\ Loaded(file) = <<hist[1].chat, hist[2].chat>>

\* C14: from absent storage, whatever requests were handled and whichever
\* saves failed, the loaded list holds no identifier twice and the file
\* holds integers only.
C14_NoDuplicates ==
    /\ \A i, j \in 1..Len(Loaded(file)) : Loaded(file)[i] = Loaded(file)[j] => i = j
    /\ \A i \in 1..Len(file.items) : file.items[i].t = "int"
    /\ Range(Loaded(file)) \subseteq Chats

C14_Witness ==
    /\ fault
    /\ Len(Loaded(file)) = 2
    /\ Len(hist) = MaxEvents
    /\ LastEv.op = "start"
    /\ wrote = 0

\* C15: after a /stop from c handled with a successful save, c is not in
\* the loaded list and a following tick makes no attempt to c, whatever the
\* storage held.
C15_UnsubscribeEffective ==
    \A c \in Chats :
      /\ (hist = <<Ev("stop", c)>> /\ ~fault) => c \notin Range(Loaded(file))
      /\ (hist = <<Ev("stop", c), Ev("tick", 0)>> /\ ~fault)
           => \A i \in 1..Len(attempts) : attempts[i].to # c

C16_Prefix(s, p) == Len(s) >= Len(p) /\ \A i \in 1..Len(p) : s[i] = p[i]

\* an update with no message and no edited message, or whose message has no
\* chat id, no text, or a text that begins with neither command
C16_NoOpEvent(u) ==
    /\ u.obj
    /\ LET m == IF u.message.k \in {"dict", "other"} THEN u.message ELSE u.edited_message
       IN  \/ m.k \in {"absent", "null", "falsy"}
           \/ /\ m.k = "dict"
              /\ \/ m.chat.k = "absent"
                 \/ m.chat.k = "dict" /\ m.chat.id.k = "absent"
                 \/ m.text.k = "absent"
                 \/ m.text.k = "str" /\ ~C16_Prefix(m.text.s, START)
                                     /\ ~C16_Prefix(m.text.s, STOP)

\* C16: such an update is a no-op: nothing is written to storage and no
\* message is sent.
C16_OtherEventsAreNoOps ==
    (last.kind = "webhook" /\ C16_NoOpEvent(last.update))
      => /\ file = before
         /\ wrote = 0
         /\ attempts = <<>>

C16_Witness ==
    /\ last.kind = "webhook"
    /\ C16_NoOpEvent(last.update)
    /\ last.update.message.text.k = "str"
    /\ Len(last.update.message.text.s) > Len(START)
    /\ Loaded(before) # <<>>
    /\ resp = OkTrue

\* C17: a tick leaves the storage as it was and attempts each recipient at
\* most once; a recipient whose delivery failed is still a subscriber, and
\* the next tick attempts it again.
C17_TickNoWriteNoRetry ==
    last.kind = "tick" =>
      /\ file = before
      /\ wrote = 0
      /\ \A i, j \in 1..Len(attempts) : attempts[i].to = attempts[j].to => i = j
      /\ \A i \in 1..Len(attempts) : attempts[i].to \in Range(Loaded(file))
      /\ (Len(hist) >= 2 /\ hist[Len(hist) - 1].op = "tick")
           => {attempts[i].to : i \in 1..Len(attempts)} = Range(Loaded(before))

\* C18 as stated: after a failed save the loaded list is what it was before
\* the add or remove.
C18_FailedSaveLeavesStore ==
    (last.kind = "webhook" /\ logged) => Loaded(file) = Loaded(before)

\* C18 as amended: a save that fails at opening the file leaves the store
\* as it was; one that fails after the file was opened and truncated leaves
\* it unparsable, and the loaded list empty.
C18_FailedSaveLeavesStoreOrEmpties ==
    (last.kind = "webhook" /\ logged)
      => \/ file = before
         \/ file = BadSyntax /\ Loaded(file) = <<>>

C18_Witness ==
    /\ last.kind = "webhook"
    /\ logged
    /\ file = BadSyntax
    /\ Len(Loaded(before)) = 2
    /\ Loaded(file) = <<>>

\* C19: when the subscribe confirmation is sent to c, c is in the loaded
\* list; when the unsubscribe confirmation is sent to c, c is not.
C19_ConfirmationMatchesState ==
    (last.kind = "webhook" /\ attempts # <<>>)
      => /\ attempts[1].text = SUBSCRIBED_TEXT
              => attempts[1].to \in Range(Loaded(file))
         /\ attempts[1].text = UNSUBSCRIBED_TEXT
              => attempts[1].to \notin Range(Loaded(file))

====
